---- MODULE Spec2Model ----
(***************************************************************************)
(* Model of the force:source:deploy and force:source:deploy:report         *)
(* commands of plugin-source (src/commands/force/source/deploy.ts and      *)
(* deploy/report.ts).                                                      *)
(*                                                                         *)
(* A behaviour is a short session of command invocations against one org   *)
(* and one project.  Each invocation is parsed (flagsConfig), then runs    *)
(* its handler step by step; every external call (tracking, component      *)
(* resolution, lifecycle bus, deploy transport) is one step whose outcome   *)
(* is chosen by the environment: it returns, or it raises.  The remote     *)
(* deploys live in the org and advance on their own (RemoteAdvance).       *)
(*                                                                         *)
(* Spec is the session.  SpecRun is one invocation over the wider command   *)
(* lines that carry json, junit and coverageformatters.  SpecProgress is a  *)
(* command inside the poll, with its progress formatter attached, under the *)
(* 'update' events of the deploy.                                          *)
(***************************************************************************)
EXTENDS Integers, Sequences, FiniteSets, TLC

\* ---------------------------------------------------------------- bounds
MaxRuns == 2     \* command invocations in one session
MaxIds == 3      \* deploy request ids the org hands out (id 1 pre-exists)
NumPaths == 1    \* source paths known to the project
MaxUpdates == 3  \* 'update' events a deploy emits while it is polled
MaxCount == 2    \* largest count an update event reports

Ids == 1..MaxIds
Paths == 1..NumPaths
Counts == 0..MaxCount
NoId == 0

\* ------------------------------------------------------------- constants
\* deploy.ts:30
xorFlags == {"manifest", "metadata", "sourcepath", "validateddeployrequestid"}

\* DeployResult.status values (RequestStatus of the deploy transport)
TerminalStatus == {"Succeeded", "Failed", "Canceled", "SucceededPartial"}
PendingStatus == {"Queued", "InProgress"}
Status == PendingStatus \cup TerminalStatus

NoResult == [id |-> NoId, status |-> "None"]
NoReturn == [none |-> TRUE]

\* an optional boolean flag is undefined when absent from the command line
\* and true when given
Absent == "absent"
Given == "given"

\* testlevel: flags.enum, options
TestLevels ==
  {"NoTestRun", "RunSpecifiedTests", "RunLocalTests", "RunAllTestsInOrg"}

\* runtests: flags.array, undefined when absent and else the list of the
\* names given, which may be empty
NoTests == [given |-> FALSE, tests |-> <<>>]

\* flag values absent from a command line
NoFlags ==
  [manifest |-> FALSE, metadata |-> FALSE, sourcepath |-> FALSE,
   validateddeployrequestid |-> FALSE, tracksource |-> FALSE,
   forceoverwrite |-> FALSE, wait |-> 1, jobid |-> NoId, verbose |-> FALSE,
   json |-> FALSE, junit |-> FALSE, coverageformatters |-> FALSE,
   ignoreerrors |-> Absent, ignorewarnings |-> Absent, checkonly |-> Absent,
   purgeondelete |-> Absent, testlevel |-> Absent, runtests |-> NoTests]

\* no apiOptions were submitted
NoOptions == [none |-> TRUE]

\* no progress formatter is attached to the deploy
NoFormatter == [mode |-> "none", verbose |-> FALSE, previous |-> -1]

\* the state of an invocation that has not started
Idle ==
  [cmd |-> "none", flags |-> NoFlags, pc |-> "idle", err |-> "none",
   exitCode |-> 0, calls |-> <<>>, raised |-> <<>>, swallowed |-> {},
   pendingErr |-> "none", isAsync |-> FALSE, tracking |-> FALSE,
   componentSet |-> {}, built |-> FALSE, handle |-> NoId,
   asyncDeployResult |-> NoId, deployResult |-> NoResult, polled |-> FALSE,
   warnings |-> {}, result |-> NoReturn, events |-> <<>>,
   formatter |-> NoFormatter, apiOptions |-> NoOptions, checked |-> <<>>]

VARIABLES
  run,               \* number of invocations started in this session
  cmd,               \* "none" | "deploy" | "report": the running command
  flags,             \* this.flags after parsing
  pc,                \* position of the running invocation
  err,               \* error the invocation failed with ("none" if none)
  exitCode,          \* process exit code of the invocation
  calls,             \* external calls made by this invocation, in order
  raised,            \* transport errors raised in this invocation, in order
  swallowed,         \* errors caught and not rethrown by this invocation
  pendingErr,        \* report.ts: error rethrown by catch, pending the finally
  isAsync,           \* this.isAsync
  tracking,          \* this.tracking is set
  componentSet,      \* this.componentSet (set of paths), after build
  built,             \* this.componentSet is set
  handle,            \* id of the deploy handle being polled
  asyncDeployResult, \* this.asyncDeployResult.id (NoId if unset)
  deployResult,      \* this.deployResult
  polled,            \* a pollStatus call returned a result in this invocation
  warnings,          \* messages passed to ux.warn
  result,            \* object returned by run()
  remote,            \* org: status of every deploy request id
  stash,             \* id stored by updateDeployId for later reports
  localState,        \* tracking store: local change of every path
  remoteChanged,     \* tracking store: paths changed in the org
  reports,           \* results returned by the completed report invocations
  events,            \* lifecycle events emitted by this invocation, in order
  formatter,         \* progress formatter listening to the deploy's updates
  updates,           \* counts of the update events of the deploy, in order
  printed,           \* for every update event, whether it was rendered
  apiOptions,        \* apiOptions passed to componentSet.deploy
  checked,           \* tracking state read by the conflict check, if made
  other              \* a second invocation running in the same project

vars ==
  <<run, cmd, flags, pc, err, exitCode, calls, raised, swallowed, pendingErr,
    isAsync, tracking, componentSet, built, handle, asyncDeployResult,
    deployResult, polled, warnings, result, remote, stash, localState,
    remoteChanged, reports, events, formatter, updates, printed,
    apiOptions, checked, other>>

runVars ==
  <<cmd, flags, pc, err, exitCode, calls, raised, swallowed, pendingErr,
    isAsync, tracking, componentSet, built, handle, asyncDeployResult,
    deployResult, polled, warnings, result, events, formatter,
    apiOptions, checked>>

orgVars == <<remote, stash>>
storeVars == <<localState, remoteChanged>>
updateVars == <<updates, printed>>

\* ------------------------------------------------------ tracking store
\* tracking.getChanges({origin: 'local', state: 'delete'})
LocalDeletes == {p \in Paths : localState[p] = "delete"}
LocalChanges == {p \in Paths : localState[p] # "none"}
\* a conflict is a path changed both locally and in the org
Conflicts == LocalChanges \cap remoteChanged


\* ------------------------------------------------------------ the org
FreeIds == {i \in Ids : remote[i] = "None"}
KnownIds == {i \in Ids : remote[i] # "None"}
NewId == CHOOSE i \in FreeIds : \A j \in FreeIds : i <= j

\* positions at which the invocation is about to read the org's status of
\* its deploy handle
ObservingPcs == {"poll", "replayStatus", "reportPoll", "reportFetch"}

\* The org works on a deploy request on its own; a completed request keeps
\* its status.  The org's progress is visible to a command only through the
\* poll and the status fetch on its handle, so the steps of the org are taken
\* where they can be observed.
RemoteAdvance(i) ==
  /\ pc \in ObservingPcs /\ i = handle
  /\ remote[i] \in PendingStatus
  /\ \E s \in Status :
       /\ \/ remote[i] = "Queued" /\ s = "InProgress"
          \/ remote[i] = "InProgress" /\ s \in TerminalStatus
       /\ remote' = [remote EXCEPT ![i] = s]
  /\ UNCHANGED <<run, other, runVars, stash, storeVars, reports, updateVars>>

\* ------------------------------------------------------- flag parsing
DeployArgs ==
  {[NoFlags EXCEPT !.manifest = m, !.metadata = d, !.sourcepath = p,
                   !.validateddeployrequestid = q, !.tracksource = t,
                   !.forceoverwrite = f, !.wait = w] :
     m \in BOOLEAN, d \in BOOLEAN, p \in BOOLEAN, q \in BOOLEAN,
     t \in BOOLEAN, f \in BOOLEAN, w \in {0, 1}}

ReportArgs ==
  {[NoFlags EXCEPT !.jobid = j, !.verbose = v, !.wait = w] :
     j \in {NoId} \cup KnownIds, v \in BOOLEAN, w \in {0, 1}}

XorOk_AtLeastOne(f) == Cardinality({x \in xorFlags : f[x]}) >= 1

\* exactlyOne: xorFlags
XorOk(f) == Cardinality({x \in xorFlags : f[x]}) = 1

DeployFlagsOk_NoExclusive(f) ==
  /\ XorOk(f)
  /\ f.checkonly # Absent => ~f.tracksource /\ ~f.validateddeployrequestid
  /\ f.validateddeployrequestid =>
       f.testlevel = Absent /\ ~f.runtests.given
  /\ f.forceoverwrite => f.tracksource
  /\ f.purgeondelete # Absent => f.manifest
  /\ f.wait >= 0

\* Deploy.flagsConfig: exactlyOne, exclusive, dependsOn and min of the flags
\* the model carries
DeployFlagsOk(f) ==
  /\ XorOk(f)
  /\ ~(f.validateddeployrequestid /\ f.tracksource)
  /\ f.checkonly # Absent => ~f.tracksource /\ ~f.validateddeployrequestid
  /\ f.validateddeployrequestid =>
       f.testlevel = Absent /\ ~f.runtests.given
  /\ f.forceoverwrite => f.tracksource
  /\ f.purgeondelete # Absent => f.manifest
  /\ f.wait >= 0

ReportFlagsOk_AnyWait(f) == f.wait >= 0

\* Report.flagsConfig: wait has min 1
ReportFlagsOk(f) == f.wait >= 1

\* The command framework parses the command line against flagsConfig before
\* run() is entered; a rejected command line fails without running anything.
ParseFlags(c, f) ==
  /\ pc \in {"idle", "done", "failed"}
  /\ run < MaxRuns
  /\ run' = run + 1
  /\ cmd' = c
  /\ flags' = f
  /\ LET ok == IF c = "deploy" THEN DeployFlagsOk(f) ELSE ReportFlagsOk(f)
     IN /\ pc' = IF ~ok THEN "failed"
                 ELSE IF c = "deploy" THEN "preChecks" ELSE "resolveId"
        /\ err' = IF ok THEN "none" ELSE "ConfigurationError"
        /\ exitCode' = IF ok THEN 0 ELSE 1
  /\ calls' = <<>>
  /\ raised' = <<>>
  /\ swallowed' = {}
  /\ pendingErr' = "none"
  /\ isAsync' = FALSE
  /\ tracking' = FALSE
  /\ componentSet' = {}
  /\ built' = FALSE
  /\ handle' = NoId
  /\ asyncDeployResult' = NoId
  /\ deployResult' = NoResult
  /\ polled' = FALSE
  /\ warnings' = {}
  /\ result' = NoReturn
  /\ events' = <<>>
  /\ formatter' = NoFormatter
  /\ apiOptions' = NoOptions
  /\ checked' = <<>>
  /\ UNCHANGED <<other, orgVars, storeVars, reports, updateVars>>

\* ------------------------------------------------------------ helpers
\* an error leaves run(): the command fails with it
Throw(e) ==
  /\ pc' = "failed"
  /\ err' = e
  /\ exitCode' = 1

Goto(p) ==
  /\ pc' = p
  /\ UNCHANGED <<err, exitCode>>

Call(c) == calls' = Append(calls, c)

\* lifecycle.emit(e, payload)
Emit(e, payload) ==
  /\ calls' = Append(calls, "emit:" \o e)
  /\ events' = Append(events, [event |-> e, payload |-> payload])

\* SourceCommand.isJsonOutput: the json flag
isJsonOutput(f) == f.json

NewFormatter_NoVerbose(c, f, bar) ==
  [mode |-> IF bar THEN "bar" ELSE "status", verbose |-> FALSE,
   previous |-> -1]

NewFormatter_ReportVerbose(c, f, bar) ==
  [mode |-> IF bar THEN "bar" ELSE "status",
   verbose |-> IF bar THEN FALSE ELSE f.verbose, previous |-> -1]

\* the progress formatter the command constructs: a bar when the environment
\* toggle SFDX_USE_PROGRESS_BAR is on; else a status formatter, which deploy
\* gives its verbose flag and report gives no option
NewFormatter(c, f, bar) ==
  IF bar
    THEN [mode |-> "bar", verbose |-> FALSE, previous |-> -1]
    ELSE [mode |-> "status",
          verbose |-> IF c = "deploy" THEN f.verbose ELSE FALSE,
          previous |-> -1]

AttachesProgress_Always(f) == TRUE

\* if (!this.isJsonOutput()) { ... progressFormatter.progress(deploy) }
AttachesProgress(f) == ~isJsonOutput(f)

\* the formatter listening to the deploy once the command polls
Attached(c, f, bar) ==
  IF AttachesProgress(f) THEN NewFormatter(c, f, bar) ELSE NoFormatter

ProgressCall(f) == IF AttachesProgress(f) THEN <<"progress">> ELSE <<>>

\* the progress formatter is attached, if any, and then the calls of next are
\* made; the environment toggle is read when the formatter is chosen
Progress(next) ==
  /\ calls' = calls \o ProgressCall(flags) \o next
  /\ \E bar \in BOOLEAN : formatter' = Attached(cmd, flags, bar)

\* if (!this.isJsonOutput()) formatter.display(), after the calls of before
Display(before) ==
  calls' = calls \o before \o
             (IF ~isJsonOutput(flags) THEN <<"display">> ELSE <<>>)


PreChecks_AlwaysSetup ==
  /\ cmd = "deploy" /\ pc = "preChecks"
  /\ Call("trackingSetup")
  /\ \/ tracking' = TRUE /\ Goto("deploy")
     \/ tracking' = tracking /\ Throw("TrackingInitError")
  /\ UNCHANGED <<run, other, checked, cmd, flags, apiOptions, events,
                 formatter, updateVars, raised, swallowed, pendingErr,
                 isAsync, componentSet, built, handle, asyncDeployResult,
                 deployResult, polled, warnings, result, orgVars, storeVars,
                 reports>>

\* ------------------------------------------------- deploy: Deploy.run
\* Deploy.preChecks
PreChecks ==
  /\ cmd = "deploy" /\ pc = "preChecks"
  /\ IF flags.tracksource
       THEN /\ Call("trackingSetup")
            /\ \/ tracking' = TRUE /\ Goto("deploy")
               \/ tracking' = tracking /\ Throw("TrackingInitError")
       ELSE /\ Goto("deploy")
            /\ UNCHANGED <<calls, tracking>>
  /\ UNCHANGED <<run, other, checked, cmd, flags, apiOptions, events,
                 formatter, updateVars, raised, swallowed, pendingErr,
                 isAsync, componentSet, built, handle, asyncDeployResult,
                 deployResult, polled, warnings, result, orgVars, storeVars,
                 reports>>

\* if (this.flags.validateddeployrequestid) ... else ...
AfterBegin_AlwaysBuild(f) == "build"

AfterBegin(f) == IF f.validateddeployrequestid THEN "replay" ELSE "build"

\* if (this.isAsync && (this.flags.coverageformatters || this.flags.junit))
WarnsAsyncReports(async, f) == async /\ (f.coverageformatters \/ f.junit)

\* Deploy.deploy, up to the branch on validateddeployrequestid
DeployBegin ==
  /\ cmd = "deploy" /\ pc = "deploy"
  /\ isAsync' = (flags.wait = 0)
  /\ IF WarnsAsyncReports(flags.wait = 0, flags)
       THEN /\ Call("warn:asyncCoverageJunitWarning")
            /\ warnings' = warnings \cup {"asyncCoverageJunitWarning"}
       ELSE UNCHANGED <<calls, warnings>>
  /\ Goto(AfterBegin(flags))
  /\ UNCHANGED <<run, other, checked, cmd, flags, apiOptions, events,
                 formatter, updateVars, raised, swallowed, pendingErr,
                 tracking, componentSet, built, handle, asyncDeployResult,
                 deployResult, polled, result, orgVars, storeVars, reports>>

AfterBuild_AlwaysFilter(f) == IF f.tracksource THEN "conflicts" ELSE "predeploy"

AfterBuild_SkipPredeploy(f) ==
  IF f.tracksource
    THEN IF ~f.forceoverwrite THEN "conflicts" ELSE "localDeletes"
    ELSE "submit"

AfterBuild_SkipConflicts(f) ==
  IF f.tracksource THEN "localDeletes" ELSE "predeploy"

\* where Deploy.deploy goes once the component set is built
AfterBuild(f) ==
  IF f.tracksource
    THEN IF ~f.forceoverwrite THEN "conflicts" ELSE "localDeletes"
    ELSE "predeploy"

\* ComponentSetBuilder.build: the resolved set depends on the project's files
Build ==
  /\ cmd = "deploy" /\ pc = "build"
  /\ Call("build")
  /\ \/ /\ \E cs \in SUBSET Paths : componentSet' = cs
        /\ built' = TRUE
        /\ Goto(AfterBuild(flags))
     \/ /\ Throw("ResolutionError")
        /\ UNCHANGED <<componentSet, built>>
  /\ UNCHANGED <<run, other, checked, cmd, flags, apiOptions, events,
                 formatter, updateVars, raised, swallowed, pendingErr,
                 isAsync, tracking, handle, asyncDeployResult, deployResult,
                 polled, warnings, result, orgVars, storeVars, reports>>

\* trackingFunctions.filterConflictsByComponentSet: the conflicts that remain
\* once restricted to the component set
filterConflictsByComponentSet(components) == Conflicts \cap components

\* "will throw if conflicts exist"
FilterConflicts ==
  /\ cmd = "deploy" /\ pc = "conflicts"
  /\ Call("filterConflictsByComponentSet")
  /\ checked' = <<storeVars>>
  /\ IF filterConflictsByComponentSet(componentSet) # {}
       THEN Throw("ConflictError")
       ELSE Goto("localDeletes")
  /\ UNCHANGED <<run, other, cmd, flags, apiOptions, events, formatter,
                 updateVars, raised, swallowed, pendingErr, isAsync, tracking,
                 componentSet, built, handle, asyncDeployResult, deployResult,
                 polled, warnings, result, orgVars, storeVars, reports>>

LocalDeletesCheck_NoWarning ==
  /\ cmd = "deploy" /\ pc = "localDeletes"
  /\ Call("getChanges")
  /\ Goto("predeploy")
  /\ UNCHANGED <<run, other, checked, cmd, flags, apiOptions, events,
                 formatter, updateVars, raised, swallowed, pendingErr,
                 isAsync, tracking, componentSet, built, handle,
                 asyncDeployResult, deployResult, polled, warnings, result,
                 orgVars, storeVars, reports>>

\* tracking.getChanges(local deletes) and the deployWontDelete warning
LocalDeletesCheck ==
  /\ cmd = "deploy" /\ pc = "localDeletes"
  /\ IF LocalDeletes # {}
       THEN /\ calls' = calls \o <<"getChanges", "warn:deployWontDelete">>
            /\ warnings' = warnings \cup {"deployWontDelete"}
       ELSE /\ Call("getChanges")
            /\ UNCHANGED warnings
  /\ Goto("predeploy")
  /\ UNCHANGED <<run, other, checked, cmd, flags, apiOptions, events,
                 formatter, updateVars, raised, swallowed, pendingErr,
                 isAsync, tracking, componentSet, built, handle,
                 asyncDeployResult, deployResult, polled, result, orgVars,
                 storeVars, reports>>

\* lifecycle.emit('predeploy'): a listener's failure is not caught
Predeploy ==
  /\ cmd = "deploy" /\ pc = "predeploy"
  /\ Emit("predeploy", componentSet)
  /\ \/ Goto("submit")
     \/ Throw("ListenerError")
  /\ UNCHANGED <<run, other, checked, cmd, flags, apiOptions, formatter,
                 updateVars, raised, swallowed, pendingErr, isAsync, tracking,
                 componentSet, built, handle, asyncDeployResult, deployResult,
                 polled, warnings, result, orgVars, storeVars, reports>>

AfterSubmit_ReadAgain(async) == "localDeletes"

AfterSubmit_Suspends(async) == IF async THEN "postdeploy" ELSE "polling"

AfterSubmit_Resubmit(async) == "submit"

AfterSubmit_BackToBuild(async) == "build"

AfterSubmit_AlwaysPoll(async) == "poll"

\* where Deploy.deploy goes once the submission returned its id
AfterSubmit(async) == IF async THEN "postdeploy" ELSE "poll"

\* SourceCommand.getFlag(name, default) of an optional boolean flag
getFlag(v, default) == IF v = Absent THEN default ELSE TRUE

RollbackOnError_Always(f) == TRUE

\* rollbackOnError: !this.getFlag<boolean>('ignoreerrors', false)
RollbackOnError(f) == ~getFlag(f.ignoreerrors, FALSE)

\* the properties set on every submission (rest apart)
BaseOptions(f) ==
  [purgeOnDelete |-> getFlag(f.purgeondelete, FALSE),
   ignoreWarnings |-> getFlag(f.ignorewarnings, FALSE),
   rollbackOnError |-> RollbackOnError(f),
   checkOnly |-> getFlag(f.checkonly, FALSE)]

SendsTestLevel_Always(f) == TRUE

\* this.getFlag<string>('testlevel') ? ... : {}: undefined and the empty
\* string are falsy
SendsTestLevel(f) == f.testlevel \notin {Absent, ""}

\* this.getFlag<string[]>('runtests') ? ... : {}: undefined is falsy, an
\* array is truthy, the empty one too
SendsRunTests(f) == f.runtests.given

\* the apiOptions of componentSet.deploy: testLevel and runTests are added
\* conditionally
ApiOptions(f) ==
  LET b == BaseOptions(f)
      keys == DOMAIN b \cup (IF SendsTestLevel(f) THEN {"testLevel"} ELSE {})
                       \cup (IF SendsRunTests(f) THEN {"runTests"} ELSE {})
  IN [k \in keys |->
        IF k = "testLevel" THEN f.testlevel
        ELSE IF k = "runTests" THEN f.runtests.tests
        ELSE b[k]]

Submit_NoRecord ==
  /\ cmd = "deploy" /\ pc = "submit"
  /\ FreeIds # {}
  /\ Call("deploy")
  /\ apiOptions' = ApiOptions(flags)
  /\ \/ /\ remote' = [remote EXCEPT ![NewId] = "Queued"]
        /\ handle' = NewId
        /\ UNCHANGED <<asyncDeployResult, stash>>
        /\ Goto(AfterSubmit(isAsync))
        /\ UNCHANGED raised
     \/ /\ Throw("SubmitError")
        /\ raised' = Append(raised, "SubmitError")
        /\ UNCHANGED <<remote, handle, asyncDeployResult, stash>>
  /\ UNCHANGED <<run, other, checked, cmd, flags, events, formatter,
                 updateVars, swallowed, pendingErr, isAsync, tracking,
                 componentSet, built, deployResult, polled, warnings, result,
                 storeVars, reports>>

\* componentSet.deploy, asyncDeployResult = {id}, updateDeployId(id)
Submit ==
  /\ cmd = "deploy" /\ pc = "submit"
  /\ FreeIds # {}
  /\ Call("deploy")
  /\ apiOptions' = ApiOptions(flags)
  /\ \/ /\ remote' = [remote EXCEPT ![NewId] = "Queued"]
        /\ handle' = NewId
        /\ asyncDeployResult' = NewId
        /\ stash' = NewId
        /\ Goto(AfterSubmit(isAsync))
        /\ UNCHANGED raised
     \/ /\ Throw("SubmitError")
        /\ raised' = Append(raised, "SubmitError")
        /\ UNCHANGED <<remote, handle, asyncDeployResult, stash>>
  /\ UNCHANGED <<run, other, checked, cmd, flags, events, formatter,
                 updateVars, swallowed, pendingErr, isAsync, tracking,
                 componentSet, built, deployResult, polled, warnings, result,
                 storeVars, reports>>

PollStatus_CancelsOnTimeout ==
  /\ cmd = "deploy" /\ pc = "poll"
  /\ Progress(<<"pollStatus">>)
  /\ \/ /\ remote[handle] \in TerminalStatus
        /\ deployResult' = [id |-> handle, status |-> remote[handle]]
        /\ polled' = TRUE
        /\ Goto("postdeploy")
        /\ UNCHANGED raised
     \/ /\ remote[handle] \in PendingStatus
        /\ Throw("PollTimeout")
        /\ raised' = Append(raised, "PollTimeout")
        /\ remote' = [remote EXCEPT ![handle] = "Canceled"]
        /\ UNCHANGED <<deployResult, polled, stash>>
     \/ /\ Throw("PollError")
        /\ raised' = Append(raised, "PollError")
        /\ UNCHANGED <<deployResult, polled, orgVars>>
  /\ UNCHANGED <<run, other, checked, cmd, flags, apiOptions, events,
                 updateVars, swallowed, pendingErr, isAsync, tracking,
                 componentSet, built, handle, asyncDeployResult, warnings,
                 result, storeVars, reports>>

\* deploy.pollStatus({timeout}): returns the result of a completed deploy;
\* raises 'The client has timed out' while the deploy is still pending when
\* the wait is over (report.ts catches exactly this); or raises another error
PollStatus ==
  /\ cmd = "deploy" /\ pc = "poll"
  /\ Progress(<<"pollStatus">>)
  /\ \/ /\ remote[handle] \in TerminalStatus
        /\ deployResult' = [id |-> handle, status |-> remote[handle]]
        /\ polled' = TRUE
        /\ Goto("postdeploy")
        /\ UNCHANGED raised
     \/ /\ remote[handle] \in PendingStatus
        /\ Throw("PollTimeout")
        /\ raised' = Append(raised, "PollTimeout")
        /\ UNCHANGED <<deployResult, polled>>
     \/ /\ Throw("PollError")
        /\ raised' = Append(raised, "PollError")
        /\ UNCHANGED <<deployResult, polled>>
  /\ UNCHANGED <<run, other, checked, cmd, flags, apiOptions, events,
                 updateVars, swallowed, pendingErr, isAsync, tracking,
                 componentSet, built, handle, asyncDeployResult, warnings,
                 result, orgVars, storeVars, reports>>


\* DeployCommand.deployRecentValidation, first half: the replay-by-id
\* transport call; the id of the new deploy is recorded
DeployRecentValidation ==
  /\ cmd = "deploy" /\ pc = "replay"
  /\ FreeIds # {}
  /\ Call("deployRecentValidation")
  /\ \/ /\ remote' = [remote EXCEPT ![NewId] = "Queued"]
        /\ handle' = NewId
        /\ asyncDeployResult' = NewId
        /\ stash' = NewId
        /\ Goto("replayStatus")
        /\ UNCHANGED raised
     \/ /\ Throw("SubmitError")
        /\ raised' = Append(raised, "SubmitError")
        /\ UNCHANGED <<remote, handle, asyncDeployResult, stash>>
  /\ UNCHANGED <<run, other, checked, cmd, flags, apiOptions, events,
                 formatter, updateVars, swallowed, pendingErr, isAsync,
                 tracking, componentSet, built, deployResult, polled,
                 warnings, result, storeVars, reports>>

\* DeployCommand.deployRecentValidation, second half: the DeployResult it
\* returns is fetched without polling when wait = 0 and polled for otherwise;
\* Deploy.deploy stores it in this.deployResult
ReplayStatus ==
  /\ cmd = "deploy" /\ pc = "replayStatus"
  /\ IF isAsync
       THEN /\ Call("checkDeployStatus")
            /\ \/ /\ deployResult' = [id |-> handle, status |-> remote[handle]]
                  /\ Goto("postdeploy")
                  /\ UNCHANGED raised
               \/ /\ Throw("FetchError")
                  /\ raised' = Append(raised, "FetchError")
                  /\ UNCHANGED deployResult
            /\ UNCHANGED <<polled, formatter>>
       ELSE /\ Progress(<<"pollStatus">>)
            /\ \/ /\ remote[handle] \in TerminalStatus
                  /\ deployResult' = [id |-> handle, status |-> remote[handle]]
                  /\ polled' = TRUE
                  /\ Goto("postdeploy")
                  /\ UNCHANGED raised
               \/ /\ remote[handle] \in PendingStatus
                  /\ Throw("PollTimeout")
                  /\ raised' = Append(raised, "PollTimeout")
                  /\ UNCHANGED <<deployResult, polled>>
               \/ /\ Throw("PollError")
                  /\ raised' = Append(raised, "PollError")
                  /\ UNCHANGED <<deployResult, polled>>
  /\ UNCHANGED <<run, other, checked, cmd, flags, apiOptions, events,
                 updateVars, swallowed, pendingErr, isAsync, tracking,
                 componentSet, built, handle, asyncDeployResult, warnings,
                 result, orgVars, storeVars, reports>>

\* "Only fire the postdeploy event when we have results."
Postdeploy ==
  /\ cmd = "deploy" /\ pc = "postdeploy"
  /\ IF deployResult # NoResult
       THEN /\ Emit("postdeploy", deployResult)
            /\ \/ Goto("resolveSuccess")
               \/ Throw("ListenerError")
       ELSE /\ Goto("resolveSuccess")
            /\ UNCHANGED <<calls, events>>
  /\ UNCHANGED <<run, other, checked, cmd, flags, apiOptions, formatter,
                 updateVars, raised, swallowed, pendingErr, isAsync, tracking,
                 componentSet, built, handle, asyncDeployResult, deployResult,
                 polled, warnings, result, orgVars, storeVars, reports>>

\* exit code of a deploy that was waited for
StatusCode(s) == IF s = "Succeeded" THEN 0 ELSE 1

\* DeployCommand.resolveSuccess: an asynchronous deploy keeps its exit code
resolveSuccess(async, code, res) ==
  IF async THEN code ELSE StatusCode(res.status)

\* Deploy.run: this.resolveSuccess()
ResolveSuccess ==
  /\ cmd = "deploy" /\ pc = "resolveSuccess"
  /\ exitCode' = resolveSuccess(isAsync, exitCode, deployResult)
  /\ pc' = "updateTracking"
  /\ UNCHANGED <<run, other, checked, cmd, flags, apiOptions, events,
                 formatter, updateVars, err, calls, raised, swallowed,
                 pendingErr, isAsync, tracking, componentSet, built, handle,
                 asyncDeployResult, deployResult, polled, warnings, result,
                 orgVars, storeVars, reports>>

\* trackingFunctions.updateTracking: the store advances for a result that did
\* not fail outright
updateTracking(res, components) ==
  IF res # NoResult /\ res.status \in {"Succeeded", "SucceededPartial"}
    THEN [p \in Paths |-> IF p \in components THEN "none" ELSE localState[p]]
    ELSE localState

MaybeUpdateTracking_Always ==
  /\ cmd = "deploy" /\ pc = "updateTracking"
  /\ Call("updateTracking")
  /\ localState' = updateTracking(deployResult, componentSet)
  /\ Goto("format")
  /\ UNCHANGED <<run, other, checked, cmd, flags, apiOptions, events,
                 formatter, updateVars, raised, swallowed, pendingErr,
                 isAsync, tracking, componentSet, built, handle,
                 asyncDeployResult, deployResult, polled, warnings, result,
                 orgVars, remoteChanged, reports>>

\* Deploy.maybeUpdateTracking
MaybeUpdateTracking ==
  /\ cmd = "deploy" /\ pc = "updateTracking"
  /\ IF flags.tracksource
       THEN /\ Call("updateTracking")
            /\ localState' = updateTracking(deployResult, componentSet)
       ELSE UNCHANGED <<calls, localState>>
  /\ Goto("format")
  /\ UNCHANGED <<run, other, checked, cmd, flags, apiOptions, events,
                 formatter, updateVars, raised, swallowed, pendingErr,
                 isAsync, tracking, componentSet, built, handle,
                 asyncDeployResult, deployResult, polled, warnings, result,
                 orgVars, remoteChanged, reports>>

\* formatter.getJson(): DeployAsyncResultFormatter gives the {id} handle,
\* DeployResultFormatter the deploy result
getJson(async, handleId, res) ==
  IF async THEN [id |-> handleId] ELSE [id |-> res.id, status |-> res.status]

CreatesReports_Always(async) == TRUE

\* if (!this.isAsync) this.maybeCreateRequestedReports()
CreatesReports(async) == ~async

ReportsCall(async) ==
  IF CreatesReports(async) THEN <<"maybeCreateRequestedReports">> ELSE <<>>

FormatResult_AlwaysFull ==
  /\ cmd = "deploy" /\ pc = "format"
  /\ Display(ReportsCall(isAsync))
  /\ result' = getJson(FALSE, asyncDeployResult, deployResult)
  /\ Goto("done")
  /\ UNCHANGED <<run, other, checked, cmd, flags, apiOptions, events,
                 formatter, updateVars, raised, swallowed, pendingErr,
                 isAsync, tracking, componentSet, built, handle,
                 asyncDeployResult, deployResult, polled, warnings, orgVars,
                 storeVars, reports>>

FormatResult_IdOnly ==
  /\ cmd = "deploy" /\ pc = "format"
  /\ Display(ReportsCall(isAsync))
  /\ result' = getJson(TRUE, asyncDeployResult, deployResult)
  /\ Goto("done")
  /\ UNCHANGED <<run, other, checked, cmd, flags, apiOptions, events,
                 formatter, updateVars, raised, swallowed, pendingErr,
                 isAsync, tracking, componentSet, built, handle,
                 asyncDeployResult, deployResult, polled, warnings, orgVars,
                 storeVars, reports>>

FormatResult_OnlyUnobserved ==
  /\ cmd = "deploy" /\ pc = "format"
  /\ Display(ReportsCall(isAsync))
  /\ result' = IF formatter.mode = "none"
                 THEN getJson(isAsync, asyncDeployResult, deployResult)
                 ELSE NoReturn
  /\ Goto("done")
  /\ UNCHANGED <<run, other, checked, cmd, flags, apiOptions, events,
                 formatter, updateVars, raised, swallowed, pendingErr,
                 isAsync, tracking, componentSet, built, handle,
                 asyncDeployResult, deployResult, polled, warnings, orgVars,
                 storeVars, reports>>

\* Deploy.formatResult
FormatResult ==
  /\ cmd = "deploy" /\ pc = "format"
  /\ Display(ReportsCall(isAsync))
  /\ result' = getJson(isAsync, asyncDeployResult, deployResult)
  /\ Goto("done")
  /\ UNCHANGED <<run, other, checked, cmd, flags, apiOptions, events,
                 formatter, updateVars, raised, swallowed, pendingErr,
                 isAsync, tracking, componentSet, built, handle,
                 asyncDeployResult, deployResult, polled, warnings, orgVars,
                 storeVars, reports>>


\* ------------------------------------------------- report: Report.run
\* DeployCommand.resolveDeployId: the jobid flag, else the stashed id
resolveDeployId(id) == IF id # NoId THEN id ELSE stash

\* Report.doReport: const deployId = this.resolveDeployId(jobid)
ResolveId ==
  /\ cmd = "report" /\ pc = "resolveId"
  /\ IF resolveDeployId(flags.jobid) = NoId
       THEN /\ Throw("MissingDeployId")
            /\ UNCHANGED handle
       ELSE /\ handle' = resolveDeployId(flags.jobid)
            /\ Goto(IF flags.verbose THEN "verbose" ELSE "reportPoll")
  /\ UNCHANGED <<run, other, checked, cmd, flags, apiOptions, events,
                 formatter, updateVars, calls, raised, swallowed, pendingErr,
                 isAsync, tracking, componentSet, built, asyncDeployResult,
                 deployResult, polled, warnings, result, orgVars, storeVars,
                 reports>>

\* Report.doReport, verbose: a failure of SfProject.resolve is ignored, then
\* the component set is built
ReportVerbose ==
  /\ cmd = "report" /\ pc = "verbose"
  /\ \/ UNCHANGED swallowed
     \/ swallowed' = swallowed \cup {"ProjectResolveError"}
  /\ Call("build")
  /\ \/ /\ \E cs \in SUBSET Paths : componentSet' = cs
        /\ built' = TRUE
        /\ Goto("reportPoll")
     \/ /\ Throw("ResolutionError")
        /\ UNCHANGED <<componentSet, built>>
  /\ UNCHANGED <<run, other, checked, cmd, flags, apiOptions, events,
                 formatter, updateVars, raised, pendingErr, isAsync, tracking,
                 handle, asyncDeployResult, deployResult, polled, warnings,
                 result, orgVars, storeVars, reports>>

IsClientTimeout_AnyError(e) == TRUE

\* error.message.includes('The client has timed out')
IsClientTimeout(e) == e = "PollTimeout"

\* what the catch clause of doReport leaves pending for an error of the poll
CatchPollError(e) == IF IsClientTimeout(e) THEN "none" ELSE e

ReportPoll_RethrowSkipsFetch ==
  /\ cmd = "report" /\ pc = "reportPoll"
  /\ Progress(<<"pollStatus">>)
  /\ \/ /\ remote[handle] \in TerminalStatus
        /\ polled' = TRUE
        /\ UNCHANGED <<raised, swallowed, pendingErr>>
        /\ Goto("reportFetch")
     \/ /\ \E e \in {"PollTimeout", "PollError"} :
             /\ e = "PollTimeout" => remote[handle] \in PendingStatus
             /\ raised' = Append(raised, e)
             /\ pendingErr' = CatchPollError(e)
             /\ swallowed' =
                  IF CatchPollError(e) = "none" THEN swallowed \cup {e}
                  ELSE swallowed
             /\ IF CatchPollError(e) = "none"
                  THEN Goto("reportFetch")
                  ELSE Throw(e)
        /\ UNCHANGED polled
  /\ UNCHANGED <<run, other, checked, cmd, flags, apiOptions, events,
                 updateVars, isAsync, tracking, componentSet, built, handle,
                 asyncDeployResult, deployResult, warnings, result, orgVars,
                 storeVars, reports>>

\* Report.doReport: try { await deploy.pollStatus } catch
ReportPoll ==
  /\ cmd = "report" /\ pc = "reportPoll"
  /\ Progress(<<"pollStatus">>)
  /\ \/ /\ remote[handle] \in TerminalStatus
        /\ polled' = TRUE
        /\ UNCHANGED <<raised, swallowed, pendingErr>>
     \/ /\ \E e \in {"PollTimeout", "PollError"} :
             /\ e = "PollTimeout" => remote[handle] \in PendingStatus
             /\ raised' = Append(raised, e)
             /\ pendingErr' = CatchPollError(e)
             /\ swallowed' =
                  IF CatchPollError(e) = "none" THEN swallowed \cup {e}
                  ELSE swallowed
        /\ UNCHANGED polled
  /\ Goto("reportFetch")
  /\ UNCHANGED <<run, other, checked, cmd, flags, apiOptions, events,
                 updateVars, isAsync, tracking, componentSet, built, handle,
                 asyncDeployResult, deployResult, warnings, result, orgVars,
                 storeVars, reports>>

\* DeployCommand.report: the org's status of the deploy, as it is now
report(id) == [id |-> id, status |-> remote[id]]

ReportFetch_CancelsDeploy ==
  /\ cmd = "report" /\ pc = "reportFetch"
  /\ Call("checkDeployStatus")
  /\ deployResult' = report(handle)
  /\ remote' = [remote EXCEPT ![handle] = "Canceled"]
  /\ IF pendingErr # "none"
       THEN Throw(pendingErr)
       ELSE Goto("reportResolveSuccess")
  /\ UNCHANGED <<run, other, checked, cmd, flags, apiOptions, events,
                 formatter, updateVars, raised, swallowed, pendingErr,
                 isAsync, tracking, componentSet, built, handle,
                 asyncDeployResult, polled, warnings, result, stash,
                 storeVars, reports>>

\* Report.doReport: finally { this.deployResult = await this.report(deployId) }
\* an error of the finally block replaces the one the catch clause rethrew
ReportFetch ==
  /\ cmd = "report" /\ pc = "reportFetch"
  /\ Call("checkDeployStatus")
  /\ \/ /\ deployResult' = report(handle)
        /\ IF pendingErr # "none"
             THEN Throw(pendingErr)
             ELSE Goto("reportResolveSuccess")
        /\ UNCHANGED raised
     \/ /\ Throw("FetchError")
        /\ raised' = Append(raised, "FetchError")
        /\ UNCHANGED deployResult
  /\ UNCHANGED <<run, other, checked, cmd, flags, apiOptions, events,
                 formatter, updateVars, swallowed, pendingErr, isAsync,
                 tracking, componentSet, built, handle, asyncDeployResult,
                 polled, warnings, result, orgVars, storeVars, reports>>

ReportResolveSuccess_ByStatus ==
  /\ cmd = "report" /\ pc = "reportResolveSuccess"
  /\ pc' = "reportFormat"
  /\ exitCode' = StatusCode(deployResult.status)
  /\ UNCHANGED err
  /\ UNCHANGED <<run, other, checked, cmd, flags, apiOptions, events,
                 formatter, updateVars, calls, raised, swallowed, pendingErr,
                 isAsync, tracking, componentSet, built, handle,
                 asyncDeployResult, deployResult, polled, warnings, result,
                 orgVars, storeVars, reports>>

\* Report.resolveSuccess: no-op, any DeployResult status is a success
ReportResolveSuccess ==
  /\ cmd = "report" /\ pc = "reportResolveSuccess"
  /\ Goto("reportFormat")
  /\ UNCHANGED <<run, other, checked, cmd, flags, apiOptions, events,
                 formatter, updateVars, calls, raised, swallowed, pendingErr,
                 isAsync, tracking, componentSet, built, handle,
                 asyncDeployResult, deployResult, polled, warnings, result,
                 orgVars, storeVars, reports>>

\* Report.formatResult: DeployReportResultFormatter(deployResult).getJson()
ReportFormatResult ==
  /\ cmd = "report" /\ pc = "reportFormat"
  /\ Display(<<"maybeCreateRequestedReports">>)
  /\ result' = getJson(FALSE, NoId, deployResult)
  /\ reports' = Append(reports, result')
  /\ Goto("done")
  /\ UNCHANGED <<run, other, checked, cmd, flags, apiOptions, events,
                 formatter, updateVars, raised, swallowed, pendingErr,
                 isAsync, tracking, componentSet, built, handle,
                 asyncDeployResult, deployResult, polled, warnings, orgVars,
                 storeVars>>

\* ------------------------------------------------------ specification
Init ==
  /\ run = 0
  /\ cmd = "none"
  /\ flags = NoFlags
  /\ pc = "idle"
  /\ err = "none"
  /\ exitCode = 0
  /\ calls = <<>>
  /\ raised = <<>>
  /\ swallowed = {}
  /\ pendingErr = "none"
  /\ isAsync = FALSE
  /\ tracking = FALSE
  /\ componentSet = {}
  /\ built = FALSE
  /\ handle = NoId
  /\ asyncDeployResult = NoId
  /\ deployResult = NoResult
  /\ polled = FALSE
  /\ warnings = {}
  /\ result = NoReturn
  /\ remote = [i \in Ids |-> IF i = 1 THEN "Queued" ELSE "None"]
  /\ stash = NoId
  /\ localState \in [Paths -> {"none", "modify", "delete"}]
  /\ remoteChanged \in SUBSET Paths
  /\ reports = <<>>
  /\ events = <<>>
  /\ formatter = NoFormatter
  /\ updates = <<>>
  /\ printed = <<>>
  /\ apiOptions = NoOptions
  /\ checked = <<>>
  /\ other = Idle

Next ==
  \/ \E f \in DeployArgs : ParseFlags("deploy", f)
  \/ \E f \in ReportArgs : ParseFlags("report", f)
  \/ \E i \in Ids : RemoteAdvance(i)
  \/ PreChecks
  \/ DeployBegin
  \/ Build
  \/ FilterConflicts
  \/ LocalDeletesCheck
  \/ Predeploy
  \/ Submit
  \/ PollStatus
  \/ DeployRecentValidation
  \/ ReplayStatus
  \/ Postdeploy
  \/ ResolveSuccess
  \/ MaybeUpdateTracking
  \/ FormatResult
  \/ ResolveId
  \/ ReportVerbose
  \/ ReportPoll
  \/ ReportFetch
  \/ ReportResolveSuccess
  \/ ReportFormatResult

Spec == Init /\ [][Next]_vars

\* One invocation, with the flags that select the output: json, junit and
\* coverageformatters.
DeployArgsOutput ==
  {[f EXCEPT !.json = j, !.junit = u, !.coverageformatters = c] :
     f \in DeployArgs, j \in BOOLEAN, u \in BOOLEAN, c \in BOOLEAN}

ReportArgsOutput ==
  {[f EXCEPT !.json = j] : f \in ReportArgs, j \in BOOLEAN}

NextRun ==
  \/ \E f \in DeployArgsOutput : pc = "idle" /\ ParseFlags("deploy", f)
  \/ \E f \in ReportArgsOutput : pc = "idle" /\ ParseFlags("report", f)
  \/ \E i \in Ids : RemoteAdvance(i)
  \/ PreChecks
  \/ DeployBegin
  \/ Build
  \/ FilterConflicts
  \/ LocalDeletesCheck
  \/ Predeploy
  \/ Submit
  \/ PollStatus
  \/ DeployRecentValidation
  \/ ReplayStatus
  \/ Postdeploy
  \/ ResolveSuccess
  \/ MaybeUpdateTracking
  \/ FormatResult
  \/ ResolveId
  \/ ReportVerbose
  \/ ReportPoll
  \/ ReportFetch
  \/ ReportResolveSuccess
  \/ ReportFormatResult

SpecRun == Init /\ [][NextRun]_vars

\* A step of the running command.  Every external call returns or raises, so
\* a command that can take a step takes one; the org owes no progress, and
\* nobody has to start a command.
RunStep ==
  \/ PreChecks
  \/ DeployBegin
  \/ Build
  \/ FilterConflicts
  \/ LocalDeletesCheck
  \/ Predeploy
  \/ Submit
  \/ PollStatus
  \/ DeployRecentValidation
  \/ ReplayStatus
  \/ Postdeploy
  \/ ResolveSuccess
  \/ MaybeUpdateTracking
  \/ FormatResult
  \/ ResolveId
  \/ ReportVerbose
  \/ ReportPoll
  \/ ReportFetch
  \/ ReportResolveSuccess
  \/ ReportFormatResult

SpecRunFair == SpecRun /\ WF_vars(RunStep)

\* One deploy invocation, with the optional boolean flags that reach the
\* apiOptions of the submission.
DeployArgsOptions ==
  {[f EXCEPT !.ignoreerrors = o, !.ignorewarnings = g, !.checkonly = c,
             !.purgeondelete = p] :
     f \in DeployArgs, o \in {Absent, Given}, g \in {Absent, Given},
     c \in {Absent, Given}, p \in {Absent, Given}}

NextOptions ==
  \/ \E f \in DeployArgsOptions : pc = "idle" /\ ParseFlags("deploy", f)
  \/ \E i \in Ids : RemoteAdvance(i)
  \/ PreChecks
  \/ DeployBegin
  \/ Build
  \/ FilterConflicts
  \/ LocalDeletesCheck
  \/ Predeploy
  \/ Submit
  \/ PollStatus
  \/ DeployRecentValidation
  \/ ReplayStatus
  \/ Postdeploy
  \/ ResolveSuccess
  \/ MaybeUpdateTracking
  \/ FormatResult

SpecOptions == Init /\ [][NextOptions]_vars

\* One deploy invocation, with the flags that select the tests to run.
DeployArgsTests ==
  {[f EXCEPT !.testlevel = l, !.runtests = r] :
     f \in DeployArgs, l \in {Absent} \cup TestLevels,
     r \in {NoTests, [given |-> TRUE, tests |-> <<>>],
            [given |-> TRUE, tests |-> <<"MyTest">>]}}

NextTests ==
  \/ \E f \in DeployArgsTests : pc = "idle" /\ ParseFlags("deploy", f)
  \/ \E i \in Ids : RemoteAdvance(i)
  \/ PreChecks
  \/ DeployBegin
  \/ Build
  \/ FilterConflicts
  \/ LocalDeletesCheck
  \/ Predeploy
  \/ Submit
  \/ PollStatus
  \/ DeployRecentValidation
  \/ ReplayStatus
  \/ Postdeploy
  \/ ResolveSuccess
  \/ MaybeUpdateTracking
  \/ FormatResult

SpecTests == Init /\ [][NextTests]_vars

\* Two invocations of the same project run as two processes: each is the
\* command above, they share the org and the tracking store, and the
\* scheduler may pass from one to the other between any two steps.
Switch ==
  /\ other' =
       [cmd |-> cmd, flags |-> flags, pc |-> pc, err |-> err,
        exitCode |-> exitCode, calls |-> calls, raised |-> raised,
        swallowed |-> swallowed, pendingErr |-> pendingErr,
        isAsync |-> isAsync, tracking |-> tracking,
        componentSet |-> componentSet, built |-> built, handle |-> handle,
        asyncDeployResult |-> asyncDeployResult,
        deployResult |-> deployResult, polled |-> polled,
        warnings |-> warnings, result |-> result, events |-> events,
        formatter |-> formatter, apiOptions |-> apiOptions,
        checked |-> checked]
  /\ cmd' = other.cmd
  /\ flags' = other.flags
  /\ pc' = other.pc
  /\ err' = other.err
  /\ exitCode' = other.exitCode
  /\ calls' = other.calls
  /\ raised' = other.raised
  /\ swallowed' = other.swallowed
  /\ pendingErr' = other.pendingErr
  /\ isAsync' = other.isAsync
  /\ tracking' = other.tracking
  /\ componentSet' = other.componentSet
  /\ built' = other.built
  /\ handle' = other.handle
  /\ asyncDeployResult' = other.asyncDeployResult
  /\ deployResult' = other.deployResult
  /\ polled' = other.polled
  /\ warnings' = other.warnings
  /\ result' = other.result
  /\ events' = other.events
  /\ formatter' = other.formatter
  /\ apiOptions' = other.apiOptions
  /\ checked' = other.checked
  /\ UNCHANGED <<run, orgVars, storeVars, reports, updateVars>>

\* tracked deploys of a manifest that wait for the result
TrackedArgs ==
  {f \in DeployArgs :
     DeployFlagsOk(f) /\ f.tracksource /\ f.manifest /\ f.wait = 1}

NextConcurrent ==
  \/ \E f \in TrackedArgs : pc = "idle" /\ ParseFlags("deploy", f)
  \/ Switch
  \/ \E i \in Ids : RemoteAdvance(i)
  \/ PreChecks
  \/ DeployBegin
  \/ Build
  \/ FilterConflicts
  \/ LocalDeletesCheck
  \/ Predeploy
  \/ Submit
  \/ PollStatus
  \/ Postdeploy
  \/ ResolveSuccess
  \/ MaybeUpdateTracking
  \/ FormatResult

SpecConcurrent == Init /\ [][NextConcurrent]_vars

\* Two invocations run one after the other, the second starting when the
\* first has ended; the first is kept in other.  The command lines differ in
\* the json flag at most, and the environment toggle is drawn anew, so the
\* two may have different progress formatters, or none.
ObservedDeployArgs ==
  {[NoFlags EXCEPT !.manifest = TRUE, !.wait = w, !.verbose = v, !.json = j] :
     w \in {0, 1}, v \in BOOLEAN, j \in BOOLEAN}

ObservedReportArgs ==
  {[NoFlags EXCEPT !.jobid = 1, !.json = j] : j \in BOOLEAN}

NextObserved ==
  \/ \E f \in ObservedDeployArgs : pc = "idle" /\ ParseFlags("deploy", f)
  \/ \E f \in ObservedReportArgs : pc = "idle" /\ ParseFlags("report", f)
  \/ pc \in {"done", "failed"} /\ other = Idle /\ Switch
  \/ \E i \in Ids : RemoteAdvance(i)
  \/ PreChecks
  \/ DeployBegin
  \/ Build
  \/ Predeploy
  \/ Submit
  \/ PollStatus
  \/ Postdeploy
  \/ ResolveSuccess
  \/ MaybeUpdateTracking
  \/ FormatResult
  \/ ResolveId
  \/ ReportPoll
  \/ ReportFetch
  \/ ReportResolveSuccess
  \/ ReportFormatResult

SpecObserved == Init /\ [][NextObserved]_vars

\* ---------------------------------------------- the progress formatters
\* DeployProgressBarFormatter renders every update; the listener of
\* DeployProgressStatusFormatter prints the status when verbose or when the
\* counts differ from those it printed last
Renders(fm, c) ==
  CASE fm.mode = "bar" -> TRUE
    [] fm.mode = "status" -> fm.verbose \/ c # fm.previous
    [] OTHER -> FALSE

\* the deploy emits 'update' with the counts c while the command polls
OnUpdate(c) ==
  /\ pc = "polling"
  /\ Len(updates) < MaxUpdates
  /\ updates' = Append(updates, c)
  /\ printed' = Append(printed, Renders(formatter, c))
  /\ formatter' = IF formatter.mode = "status" /\ Renders(formatter, c)
                    THEN [formatter EXCEPT !.previous = c]
                    ELSE formatter
  /\ UNCHANGED <<run, other, checked, cmd, flags, apiOptions, pc, err,
                 exitCode, calls, raised, swallowed, pendingErr, isAsync,
                 tracking, componentSet, built, handle, asyncDeployResult,
                 deployResult, polled, warnings, result, orgVars, storeVars,
                 reports, events>>

\* a deploy or a report inside deploy.pollStatus on request 1, after the
\* formatter was attached (deploy.ts:243-249, report.ts:90-97)
InitProgress ==
  /\ run = 1
  /\ cmd \in {"deploy", "report"}
  /\ \E v \in BOOLEAN, j \in BOOLEAN :
       flags = [NoFlags EXCEPT !.manifest = (cmd = "deploy"),
                               !.verbose = v, !.json = j]
  /\ pc = "polling"
  /\ err = "none"
  /\ exitCode = 0
  /\ calls = ProgressCall(flags) \o <<"pollStatus">>
  /\ raised = <<>>
  /\ swallowed = {}
  /\ pendingErr = "none"
  /\ isAsync = FALSE
  /\ tracking = FALSE
  /\ componentSet = {}
  /\ built = (cmd = "deploy")
  /\ handle = 1
  /\ asyncDeployResult = IF cmd = "deploy" THEN 1 ELSE NoId
  /\ deployResult = NoResult
  /\ polled = FALSE
  /\ warnings = {}
  /\ result = NoReturn
  /\ remote = [i \in Ids |-> IF i = 1 THEN "InProgress" ELSE "None"]
  /\ stash = 1
  /\ localState = [p \in Paths |-> "none"]
  /\ remoteChanged = {}
  /\ reports = <<>>
  /\ events = IF cmd = "deploy"
                THEN <<[event |-> "predeploy", payload |-> {}]>>
                ELSE <<>>
  /\ \E bar \in BOOLEAN : formatter = Attached(cmd, flags, bar)
  /\ updates = <<>>
  /\ printed = <<>>
  /\ apiOptions = IF cmd = "deploy" THEN ApiOptions(flags) ELSE NoOptions
  /\ checked = <<>>
  /\ other = Idle

NextProgress == \E c \in Counts : OnUpdate(c)

SpecProgress == InitProgress /\ [][NextProgress]_vars


\* ------------------------------------------------------------ properties
Has(c) == \E i \in DOMAIN calls : calls[i] = c
Count(c) == Cardinality({i \in DOMAIN calls : calls[i] = c})
Before(a, b) ==
  \E i \in DOMAIN calls : calls[i] = a /\ \A j \in DOMAIN calls : calls[j] = b => i < j

InputModes == {x \in xorFlags : flags[x]}
UntouchedByRun ==
  /\ calls = <<>>
  /\ ~tracking
  /\ ~built
  /\ handle = NoId
  /\ result = NoReturn

\* C1: a deploy command line is accepted only with exactly one of manifest,
\* metadata, sourcepath, validateddeployrequestid; with none or several the
\* command fails with a configuration error and has made no external call
\* (no tracking setup, no component resolution, no submission).
C1_ExactlyOneInputMode ==
  cmd = "deploy" =>
    /\ pc # "failed" \/ err # "ConfigurationError" => Cardinality(InputModes) = 1
    /\ Cardinality(InputModes) # 1 =>
         pc = "failed" /\ err = "ConfigurationError" /\ exitCode # 0 /\ UntouchedByRun

C1_Witness ==
  /\ cmd = "deploy"
  /\ flags.manifest /\ flags.metadata
  /\ pc = "failed" /\ err = "ConfigurationError"

\* C2 (as stated): with tracksource and without forceoverwrite, whenever some
\* path is changed both locally and in the org, componentSet.deploy is never
\* invoked and the command does not succeed.
C2_AnyConflictBlocksSubmit ==
  cmd = "deploy" /\ flags.tracksource /\ ~flags.forceoverwrite
    /\ pc \notin {"format", "done"} /\ Conflicts # {}
  => ~Has("deploy")

\* C2 (amended): with tracksource and without forceoverwrite, when a path of
\* the resolved component set is changed both locally and in the org,
\* componentSet.deploy is never invoked and the command fails at the conflict
\* check with the conflict error.
C2_ConflictInComponentSetBlocksSubmit ==
  cmd = "deploy" /\ flags.tracksource /\ ~flags.forceoverwrite /\ built
    /\ Conflicts \cap componentSet # {}
  => /\ ~Has("deploy")
     /\ ~Has("emit:predeploy")
     /\ \/ pc = "conflicts"
        \/ pc = "failed" /\ err = "ConflictError" /\ exitCode # 0

C2_Witness ==
  /\ cmd = "deploy" /\ flags.manifest /\ flags.tracksource /\ ~flags.forceoverwrite
  /\ built /\ Conflicts \cap componentSet # {}
  /\ pc = "failed" /\ err = "ConflictError"

\* C3: in a deploy invocation with wait = 0, in every input mode, pollStatus is
\* never called, and the invocation that returns returns an object holding
\* only the request id, with exit code 0.
C3_AsyncReturnsIdOnly ==
  cmd = "deploy" /\ flags.wait = 0 =>
    /\ ~Has("pollStatus")
    /\ ~polled
    /\ pc = "done" =>
         /\ DOMAIN result = {"id"}
         /\ result.id \in Ids
         /\ result.id = asyncDeployResult
         /\ exitCode = 0

C3_Witness ==
  /\ cmd = "deploy" /\ flags.metadata /\ flags.wait = 0
  /\ pc = "done" /\ DOMAIN result = {"id"} /\ exitCode = 0

C3_WitnessReplay ==
  /\ cmd = "deploy" /\ flags.validateddeployrequestid /\ flags.wait = 0
  /\ pc = "done" /\ DOMAIN result = {"id"}

C4_WitnessPolled ==
  /\ cmd = "deploy" /\ ~flags.validateddeployrequestid /\ flags.wait # 0
  /\ polled /\ deployResult # NoResult

\* C5: in a deploy invocation with validateddeployrequestid, no component set
\* is built, no conflict check is made, predeploy is not emitted and
\* componentSet.deploy is not called; deployRecentValidation is the first
\* external call and is called exactly once.
C5_ReplaySkipsResolution ==
  cmd = "deploy" /\ flags.validateddeployrequestid
  => /\ ~built
     /\ ~Has("build")
     /\ ~Has("trackingSetup")
     /\ ~Has("filterConflictsByComponentSet")
     /\ ~Has("emit:predeploy")
     /\ ~Has("deploy")
     /\ Count("deployRecentValidation") <= 1
     /\ calls # <<>> => calls[1] = "deployRecentValidation"
     /\ pc \in {"replayStatus", "postdeploy", "resolveSuccess", "updateTracking",
                "format", "done"} => Count("deployRecentValidation") = 1

C5_Witness ==
  /\ cmd = "deploy" /\ flags.validateddeployrequestid
  /\ pc = "done" /\ Count("deployRecentValidation") = 1 /\ ~built


\* transport errors raised in this invocation and not swallowed, in order
Unswallowed == SelectSeq(raised, LAMBDA e : e \notin swallowed)
TimedOut == \E i \in DOMAIN raised : raised[i] = "PollTimeout"

\* C6: when the poll of a synchronous deploy (deploy.pollStatus of
\* Deploy.deploy) exceeds the wait duration, the deploy command does not fail:
\* it ends successfully with an in-progress result, and the request id stays
\* available to the report command.
C6_DeployPollTimeoutNonFatal ==
  cmd = "deploy" /\ ~flags.validateddeployrequestid /\ TimedOut =>
    /\ pc # "failed"
    /\ exitCode = 0
    /\ stash = handle

\* C7 (as stated): in the report command a poll timeout is swallowed, the
\* status of the same id is then fetched and formatted and the command ends
\* successfully; no other error is recovered from locally.
C7_OnlyTimeoutRecovered ==
  cmd = "report" =>
    /\ swallowed \subseteq {"PollTimeout"}
    /\ "PollTimeout" \in swallowed => pc # "failed"

\* C7 (amended): in the report command a poll timeout is swallowed: the status
\* of the same id is then fetched and, when that fetch returns, it is
\* formatted and the command ends successfully; any other poll error is
\* rethrown.  The only other error recovered from locally is a failure of
\* SfProject.resolve under verbose.
C7_TimeoutSwallowedThenFetched ==
  cmd = "report" =>
    /\ swallowed \subseteq {"PollTimeout", "ProjectResolveError"}
    /\ "ProjectResolveError" \in swallowed => flags.verbose
    /\ "PollTimeout" \in swallowed =>
         /\ pendingErr = "none"
         /\ pc \in {"reportFetch", "reportResolveSuccess", "reportFormat",
                    "done", "failed"}
         /\ pc = "failed" => err = "FetchError"
         /\ pc \in {"reportResolveSuccess", "reportFormat", "done"} =>
              /\ Before("pollStatus", "checkDeployStatus")
              /\ deployResult.id = handle
         /\ pc = "done" => result.id = handle /\ exitCode = 0
    /\ (\E i \in DOMAIN raised : raised[i] = "PollError") =>
         /\ "PollError" \notin swallowed
         /\ pc \in {"reportFetch", "failed"}

C7_Witness ==
  /\ cmd = "report" /\ "PollTimeout" \in swallowed
  /\ pc = "done" /\ result.id = handle /\ result.status \in PendingStatus

C7_WitnessProject ==
  /\ cmd = "report" /\ "ProjectResolveError" \in swallowed /\ pc = "done"

\* C8: a transport error that is not the swallowed report-poll timeout makes
\* the command fail, and the command fails with the first such error raised.
C8_FirstTransportErrorReachesCaller ==
  Unswallowed # <<>> =>
    /\ pc # "done"
    /\ pc = "failed" => err = Unswallowed[1]

\* the pending local deletions that the resolved component set does not hold
UnrepresentedDeletes == LocalDeletes \ componentSet

\* C9: in a tracked deploy whose tracking store shows a local deletion that
\* the resolved component set does not hold, once the conflict check has let
\* the run pass, the deployWontDelete warning has been emitted, the run goes
\* on to the submission, and the warning precedes the submission call.
C9_DeleteWarningThenSubmit ==
  cmd = "deploy" /\ flags.tracksource /\ Has("getChanges") =>
    /\ pc \in {"predeploy", "submit", "poll", "postdeploy", "resolveSuccess",
               "updateTracking"} /\ UnrepresentedDeletes # {} =>
         /\ "deployWontDelete" \in warnings
         /\ Count("warn:deployWontDelete") = 1
         /\ Has("deploy") => Before("warn:deployWontDelete", "deploy")
    /\ pc \in {"poll", "postdeploy", "resolveSuccess", "updateTracking",
               "format", "done"} => Count("deploy") = 1
    /\ pc = "failed" =>
         err \in {"ListenerError", "SubmitError", "PollTimeout", "PollError"}

C9_Witness ==
  /\ cmd = "deploy" /\ flags.tracksource /\ ~flags.forceoverwrite
  /\ UnrepresentedDeletes # {}
  /\ pc = "postdeploy"
  /\ "deployWontDelete" \in warnings
  /\ Before("warn:deployWontDelete", "deploy")

\* C10: two report invocations with the same request id, the first of which
\* returned a completed deploy, return the same result: reporting changes
\* nothing that a later report reads.
C10_ReportIdempotent ==
  \A i \in DOMAIN reports : \A j \in DOMAIN reports :
    i < j /\ reports[i].id = reports[j].id /\ reports[i].status \in TerminalStatus
    => reports[j] = reports[i]

C10_Witness ==
  /\ Len(reports) = 2
  /\ reports[1].id = reports[2].id
  /\ reports[1].status \in TerminalStatus
  /\ reports[2] = reports[1]


\* C11: with the json flag, deploy and report attach no progress formatter
\* and never call the result formatter's display(); the invocation that returns
\* still returns the object the result formatter built.
C11_JsonSuppressesRendering ==
  cmd # "none" /\ isJsonOutput(flags) =>
    /\ ~Has("progress") /\ formatter = NoFormatter
    /\ ~Has("display")
    /\ pc = "done" =>
         /\ result # NoReturn
         /\ result = IF cmd = "deploy"
                       THEN getJson(isAsync, asyncDeployResult, deployResult)
                       ELSE getJson(FALSE, NoId, deployResult)

\* a synchronous deploy that polled and returned under json
C11_Witness ==
  /\ cmd = "deploy" /\ isJsonOutput(flags)
  /\ ~isAsync /\ Has("pollStatus")
  /\ pc = "done" /\ result # NoReturn

\* a report that polled and returned under json
C11_WitnessReport ==
  /\ cmd = "report" /\ isJsonOutput(flags)
  /\ Has("pollStatus")
  /\ pc = "done" /\ result # NoReturn

\* without json the formatter is attached before the poll and display() is
\* called before the command returns
C11_WitnessRendered ==
  /\ cmd = "deploy" /\ ~isJsonOutput(flags)
  /\ Before("progress", "pollStatus") /\ formatter # NoFormatter
  /\ Has("display") /\ pc = "done"

\* C12: a deploy that is waited for (wait > 0), given --manifest or --metadata,
\* whose deploy succeeds in the org: the invocation that returns has exit code
\* 0 and returns the full result of that deploy, not the {id} handle; it can
\* fail only by an error of the transport or of a lifecycle listener.
C12_SyncSuccessReturnsFullResult ==
  cmd = "deploy" /\ flags.wait > 0 /\ (flags.manifest \/ flags.metadata)
    /\ handle # NoId /\ remote[handle] = "Succeeded" =>
    /\ pc = "done" =>
         /\ exitCode = 0
         /\ DOMAIN result # {"id"}
         /\ result = [id |-> handle, status |-> "Succeeded"]
    /\ pc = "failed" => err \in {"PollError", "ListenerError"}

C12_Witness ==
  /\ cmd = "deploy" /\ flags.wait > 0 /\ flags.manifest /\ flags.json
  /\ handle # NoId /\ remote[handle] = "Succeeded"
  /\ pc = "done" /\ exitCode = 0
  /\ result = [id |-> handle, status |-> "Succeeded"]

\* ------------------------------------------------ progress formatters
\* the status formatter was constructed with the verbose option: deploy passes
\* its verbose flag, report passes no option
StatusVerbose == cmd = "deploy" /\ flags.verbose

\* counts of the last update rendered before update i (-1: none yet)
LastPrintedBefore(i) ==
  LET J == {j \in 1..(i - 1) : printed[j]}
  IN IF J = {} THEN -1
     ELSE updates[CHOOSE j \in J : \A k \in J : k <= j]

Repeated(i) == i > 1 /\ updates[i] = updates[i - 1]

\* C13: over any sequence of update events seen by the status formatter, an
\* update is printed iff verbose is set or its counts differ from those of the
\* last printed update; the first update is always printed; without verbose
\* an update repeating the counts of the one before prints nothing.
C13_StatusPrintsOnChangeOrVerbose ==
  formatter.mode = "status" =>
    /\ \A i \in DOMAIN updates :
         printed[i] <=> (StatusVerbose \/ updates[i] # LastPrintedBefore(i))
    /\ updates # <<>> => printed[1]
    /\ ~StatusVerbose => \A i \in DOMAIN updates : Repeated(i) => ~printed[i]

\* without verbose: printed, suppressed as a repeat, printed after a change
C13_Witness ==
  /\ formatter.mode = "status" /\ ~StatusVerbose
  /\ Len(updates) = 3
  /\ updates[1] = updates[2] /\ updates[3] # updates[2]
  /\ printed = <<TRUE, FALSE, TRUE>>

\* verbose: the same counts printed three times
C13_WitnessVerbose ==
  /\ formatter.mode = "status" /\ StatusVerbose
  /\ Len(updates) = 3
  /\ updates[1] = updates[2] /\ updates[2] = updates[3]
  /\ printed = <<TRUE, TRUE, TRUE>>

\* C14 (as stated): the status formatter never renders an update whose counts
\* are those of the update before, whatever its configuration; the bar
\* formatter renders every update.
C14_StatusNeverRendersRepeat ==
  /\ formatter.mode = "status" =>
       \A i \in DOMAIN updates : Repeated(i) => ~printed[i]
  /\ formatter.mode = "bar" => \A i \in DOMAIN updates : printed[i]

\* C14 (amended): the status formatter constructed without verbose never
\* renders an update whose counts are those of the update before; constructed
\* with verbose it renders every update, repeats included; the bar formatter
\* renders every update.
C14_StatusSuppressesRepeatUnlessVerbose ==
  /\ formatter.mode = "status" /\ ~StatusVerbose =>
       \A i \in DOMAIN updates : Repeated(i) => ~printed[i]
  /\ formatter.mode = "status" /\ StatusVerbose =>
       \A i \in DOMAIN updates : printed[i]
  /\ formatter.mode = "bar" => \A i \in DOMAIN updates : printed[i]

\* report --verbose in status mode: a repeat is suppressed all the same
C14_Witness ==
  /\ cmd = "report" /\ flags.verbose /\ formatter.mode = "status"
  /\ \E i \in DOMAIN updates : Repeated(i) /\ ~printed[i]

\* the bar renders a repeat
C14_WitnessBar ==
  /\ formatter.mode = "bar"
  /\ \E i \in DOMAIN updates : Repeated(i) /\ printed[i]

\* ------------------------------------------------------ lifecycle events
Emitted(e) == SelectSeq(events, LAMBDA x : x.event = e)

\* positions of Deploy.run after the predeploy event
AfterPredeployPcs ==
  {"submit", "poll", "postdeploy", "resolveSuccess", "updateTracking",
   "format", "done"}

\* C15: in a deploy that is not a validated replay, with or without waiting,
\* predeploy is emitted at most once and exactly once in a run that submits,
\* with the resolved component set, after the build and the conflict check and
\* before the submission; never in a run the conflict check aborted; and no
\* submission is made without it.
C15_PredeployOnceBeforeSubmit ==
  cmd = "deploy" /\ ~flags.validateddeployrequestid =>
    /\ Len(Emitted("predeploy")) = Count("emit:predeploy")
    /\ Count("emit:predeploy") <= 1
    /\ \A i \in DOMAIN events :
         events[i].event = "predeploy" => events[i].payload = componentSet
    /\ Has("emit:predeploy") =>
         /\ built /\ Before("build", "emit:predeploy")
         /\ flags.tracksource /\ ~flags.forceoverwrite =>
              Before("filterConflictsByComponentSet", "emit:predeploy")
    /\ pc \in AfterPredeployPcs \/ Has("deploy") =>
         /\ Count("emit:predeploy") = 1
         /\ Before("emit:predeploy", "deploy")
    /\ err = "ConflictError" => ~Has("emit:predeploy") /\ ~Has("deploy")

\* a tracked deploy whose conflict check passed, submitted without waiting
C15_Witness ==
  /\ cmd = "deploy" /\ flags.tracksource /\ ~flags.forceoverwrite
  /\ isAsync /\ componentSet # {}
  /\ Has("filterConflictsByComponentSet") /\ Has("deploy")
  /\ Len(events) = 1 /\ events[1].payload = componentSet

\* a run aborted by the conflict check
C15_WitnessAbort ==
  /\ cmd = "deploy" /\ err = "ConflictError"
  /\ events = <<>> /\ ~Has("deploy")

\* positions of Deploy.run after the postdeploy event
AfterPostdeployPcs == {"resolveSuccess", "updateTracking", "format", "done"}

\* a deploy result was obtained and postdeploy is emitted exactly once with
\* it, after the call that obtained it and before the tracking update and the
\* formatting
PostdeployOnceWithResult ==
  /\ Len(Emitted("postdeploy")) = Count("emit:postdeploy")
  /\ Count("emit:postdeploy") <= 1
  /\ \A i \in DOMAIN events :
       events[i].event = "postdeploy" =>
         events[i].payload = deployResult /\ deployResult # NoResult
  /\ pc \in AfterPostdeployPcs /\ deployResult # NoResult =>
       /\ Count("emit:postdeploy") = 1
       /\ \/ Before("pollStatus", "emit:postdeploy")
          \/ Before("checkDeployStatus", "emit:postdeploy")
  /\ ~(Before("updateTracking", "emit:postdeploy") /\ Has("emit:postdeploy"))
  /\ Has("emit:postdeploy") => result = NoReturn \/ pc = "done"

\* C16 (as stated): postdeploy is emitted exactly once with the deploy result
\* in every deploy invocation that obtained one, after the poll and before the
\* tracking update and the formatting; and an invocation with wait = 0 never
\* emits postdeploy.
C16_PostdeployOnceNeverAsync ==
  cmd = "deploy" =>
    /\ PostdeployOnceWithResult
    /\ flags.wait = 0 => ~Has("emit:postdeploy")

\* ---------------------------------------------------------- tracking
\* results for which the store advances
NotFailedOutright == {"Succeeded", "SucceededPartial"}

\* C17 (as stated): updateTracking is requested iff tracksource is set and the
\* deploy reached a terminal result that did not fail outright; never for a
\* failed deploy or for a deploy without a result.
C17_TrackingRequestedIffNotFailed ==
  cmd = "deploy" =>
    /\ Has("updateTracking") =>
         /\ flags.tracksource
         /\ deployResult # NoResult
         /\ deployResult.status \in NotFailedOutright
    /\ pc \in {"format", "done"} /\ flags.tracksource
         /\ deployResult.status \in NotFailedOutright => Has("updateTracking")

\* the step of this invocation that calls updateTracking
RequestsTracking == ~Has("updateTracking") /\ Has("updateTracking")'

\* C17 (amended): updateTracking is requested, with whatever this.deployResult
\* holds, iff tracksource is set and the run reaches the tracking step, also
\* for a failed deploy and for a deploy without a result; the store changes
\* only in that step and only for a result that did not fail outright, and
\* then no deployed component is a local change any more; it is left as it
\* was for a failed deploy and for a deploy without a result.
C17_TrackingAdvance ==
  /\ [](cmd = "deploy" =>
          /\ Has("updateTracking") => flags.tracksource /\ pc \in {"format", "done"}
          /\ pc \in {"format", "done"} /\ flags.tracksource => Has("updateTracking"))
  /\ [][/\ RequestsTracking <=>
             cmd = "deploy" /\ pc = "updateTracking" /\ flags.tracksource
        /\ localState' # localState =>
             /\ RequestsTracking
             /\ deployResult # NoResult
             /\ deployResult.status \in NotFailedOutright
        /\ RequestsTracking /\ deployResult.status \in NotFailedOutright =>
             /\ \A p \in componentSet : localState'[p] = "none"
             /\ \A p \in Paths \ componentSet : localState'[p] = localState[p]
        /\ remoteChanged' = remoteChanged]_vars

\* a tracked deploy of a locally deleted path succeeded: the path is no local
\* change any more
C17_Witness ==
  /\ cmd = "deploy" /\ flags.tracksource /\ Has("updateTracking")
  /\ deployResult.status = "Succeeded" /\ componentSet = Paths
  /\ "deployWontDelete" \in warnings /\ LocalChanges = {}

\* requested for a failed deploy, and the store kept its local change
C17_WitnessFailed ==
  /\ cmd = "deploy" /\ Has("updateTracking")
  /\ deployResult.status = "Failed"
  /\ componentSet \cap LocalChanges # {}

\* requested without a result (wait = 0)
C17_WitnessNoResult ==
  /\ cmd = "deploy" /\ Has("updateTracking")
  /\ deployResult = NoResult
  /\ componentSet \cap LocalChanges # {}

\* C18: with tracksource and forceoverwrite the conflict filter is never
\* invoked, a conflict never fails the run, and the submission is made even
\* when paths of the component set conflict; the check for pending local
\* deletions still runs before the submission.
C18_ForceOverwriteSkipsFilter ==
  cmd = "deploy" /\ flags.tracksource /\ flags.forceoverwrite =>
    /\ ~Has("filterConflictsByComponentSet")
    /\ err # "ConflictError"
    /\ pc \in AfterPredeployPcs \/ pc = "predeploy" \/ Has("deploy") =>
         /\ Count("getChanges") = 1
         /\ Before("build", "getChanges")
         /\ Has("deploy") => Before("getChanges", "deploy")
    /\ LocalDeletes # {} /\ Has("getChanges") /\ ~Has("updateTracking") =>
         "deployWontDelete" \in warnings

\* submitted although a path of the component set is in conflict
C18_Witness ==
  /\ cmd = "deploy" /\ flags.tracksource /\ flags.forceoverwrite
  /\ Conflicts \cap componentSet # {}
  /\ Has("getChanges") /\ Has("deploy") /\ handle # NoId

\* ------------------------------------------------------------ reports
Submissions == {"deploy", "deployRecentValidation"}

\* C19: in a deploy with wait = 0 that asked for coverageformatters or junit,
\* the warning is emitted before any submission, and
\* maybeCreateRequestedReports is never invoked, so no coverage or JUnit report
\* is created; it is invoked only by a deploy that is not asynchronous.
C19_AsyncReportsWarnedNotCreated ==
  cmd = "deploy" =>
    /\ flags.wait = 0 /\ (flags.coverageformatters \/ flags.junit) =>
         /\ pc \notin {"preChecks", "deploy", "failed"} =>
              /\ "asyncCoverageJunitWarning" \in warnings
              /\ Count("warn:asyncCoverageJunitWarning") = 1
         /\ \A s \in Submissions :
              Has(s) => Before("warn:asyncCoverageJunitWarning", s)
         /\ ~Has("maybeCreateRequestedReports")
    /\ Has("maybeCreateRequestedReports") => ~isAsync /\ flags.wait > 0
    /\ pc = "done" /\ flags.wait > 0 => Has("maybeCreateRequestedReports")

\* an asynchronous deploy that asked for junit returned its id
C19_Witness ==
  /\ cmd = "deploy" /\ flags.wait = 0 /\ flags.junit
  /\ Has("deploy") /\ pc = "done"
  /\ "asyncCoverageJunitWarning" \in warnings
  /\ ~Has("maybeCreateRequestedReports")

\* a deploy that was waited for creates the requested reports
C19_WitnessSync ==
  /\ cmd = "deploy" /\ flags.wait > 0 /\ flags.coverageformatters
  /\ pc = "done" /\ Has("maybeCreateRequestedReports")
  /\ warnings = {}

\* ------------------------------------------------------------- stages
\* the orchestration stage the step taken at a position of Deploy.run belongs
\* to: 0 Init, 1 PreChecking, 2 ComponentResolving, 3 ConflictChecking,
\* 4 Submitting, 5 AsyncDone or Polling, 6 PostProcessing, 7 Formatted
StageOfPc(p) ==
  CASE p = "idle" -> 0
    [] p \in {"preChecks", "deploy"} -> 1
    [] p = "build" -> 2
    [] p \in {"conflicts", "localDeletes"} -> 3
    [] p \in {"predeploy", "submit", "replay"} -> 4
    [] p \in {"poll", "replayStatus"} -> 5
    [] p \in {"postdeploy", "resolveSuccess", "updateTracking"} -> 6
    [] OTHER -> 7

\* the stage an external call belongs to
StageOfCall(c) ==
  CASE c \in {"trackingSetup", "warn:asyncCoverageJunitWarning"} -> 1
    [] c = "build" -> 2
    [] c \in {"filterConflictsByComponentSet", "getChanges",
              "warn:deployWontDelete"} -> 3
    [] c \in {"emit:predeploy", "deploy", "deployRecentValidation"} -> 4
    [] c \in {"progress", "pollStatus", "checkDeployStatus"} -> 5
    [] c \in {"emit:postdeploy", "updateTracking"} -> 6
    [] OTHER -> 7

\* calls that a run makes at most once
OnceCalls ==
  {"trackingSetup", "build", "filterConflictsByComponentSet", "getChanges",
   "emit:predeploy", "deploy", "deployRecentValidation", "pollStatus",
   "checkDeployStatus", "emit:postdeploy", "updateTracking"}

\* C20: a deploy run goes through the stages Init, PreChecking,
\* ComponentResolving, ConflictChecking, Submitting, AsyncDone or Polling,
\* PostProcessing, Formatted in this order only: its position never moves to
\* an earlier stage, its calls are made in stage order and each at most once,
\* an asynchronous submission is not polled, and a run that aborted takes no
\* further step.
C20_StagesInOrder ==
  /\ [](cmd = "deploy" =>
          /\ \A i \in DOMAIN calls : \A j \in DOMAIN calls :
               i < j => StageOfCall(calls[i]) <= StageOfCall(calls[j])
          /\ \A c \in OnceCalls : Count(c) <= 1
          /\ isAsync => ~Has("pollStatus")
          /\ calls # <<>> /\ pc \notin {"failed", "done"} =>
               StageOfCall(calls[Len(calls)]) <= StageOfPc(pc))
  /\ [][cmd = "deploy" /\ run' = run =>
          /\ pc # pc' =>
               /\ pc \notin {"failed", "done"}
               /\ pc' = "failed" \/ StageOfPc(pc') > StageOfPc(pc)
                    \/ (StageOfPc(pc') = StageOfPc(pc)
                        /\ <<pc, pc'>> \in {<<"preChecks", "deploy">>,
                             <<"conflicts", "localDeletes">>,
                             <<"predeploy", "submit">>,
                             <<"postdeploy", "resolveSuccess">>,
                             <<"resolveSuccess", "updateTracking">>,
                             <<"format", "done">>})
          /\ pc \in {"failed", "done"} => UNCHANGED vars]_vars

\* a tracked synchronous deploy went through every stage
C20_Witness ==
  /\ cmd = "deploy" /\ pc = "done"
  /\ {StageOfCall(calls[i]) : i \in DOMAIN calls} = 1..7

\* a run aborted in ConflictChecking made no call of a later stage
C20_WitnessAbort ==
  /\ cmd = "deploy" /\ pc = "failed" /\ err = "ConflictError"
  /\ \A i \in DOMAIN calls : StageOfCall(calls[i]) <= 3

\* ------------------------------------------------- tracking is optional
\* calls that reach the tracking store
TrackingCalls ==
  {"trackingSetup", "filterConflictsByComponentSet", "getChanges",
   "updateTracking"}

\* C21: without tracksource a deploy never calls tracking setup, the conflict
\* filter, the local-changes query or the tracking update, never fails on the
\* tracking store and leaves the store as it is; with tracksource, tracking
\* setup is called exactly once, first of all calls and before the build.
C21_TrackingOnlyWhenRequested ==
  /\ [](cmd = "deploy" /\ err # "ConfigurationError" =>
          /\ ~flags.tracksource =>
               /\ \A c \in TrackingCalls : ~Has(c)
               /\ ~tracking
               /\ err \notin {"TrackingInitError", "ConflictError"}
          /\ flags.tracksource /\ pc # "preChecks" =>
               /\ Count("trackingSetup") = 1
               /\ calls[1] = "trackingSetup"
               /\ Has("build") => Before("trackingSetup", "build")
               /\ tracking \/ err = "TrackingInitError")
  /\ [][cmd = "deploy" /\ run' = run /\ ~flags.tracksource =>
          UNCHANGED storeVars]_vars

\* an untracked deploy ran to its end over a store with a conflict
C21_Witness ==
  /\ cmd = "deploy" /\ ~flags.tracksource /\ pc = "done"
  /\ Conflicts # {} /\ Has("build") /\ Has("deploy")

\* a tracked deploy set tracking up and then built
C21_WitnessTracked ==
  /\ cmd = "deploy" /\ flags.tracksource
  /\ Has("build") /\ calls[1] = "trackingSetup"

\* C22: no accepted deploy command line has both validateddeployrequestid and
\* tracksource: a command line with both is rejected before anything runs,
\* and a validated replay makes no tracking setup, no conflict check, no
\* local-changes query and no tracking update.
C22_ReplayExcludesTracking ==
  cmd = "deploy" =>
    /\ flags.validateddeployrequestid /\ flags.tracksource =>
         pc = "failed" /\ err = "ConfigurationError" /\ UntouchedByRun
    /\ flags.validateddeployrequestid =>
         /\ \A c \in TrackingCalls : ~Has(c)
         /\ ~tracking
         /\ err \notin {"TrackingInitError", "ConflictError"}

\* the command line with both flags and nothing else wrong is rejected
C22_Witness ==
  /\ cmd = "deploy"
  /\ flags.validateddeployrequestid /\ flags.tracksource
  /\ Cardinality(InputModes) = 1 /\ ~flags.forceoverwrite
  /\ pc = "failed" /\ err = "ConfigurationError"

\* a validated replay ran to its end
C22_WitnessReplay ==
  /\ cmd = "deploy" /\ flags.validateddeployrequestid
  /\ pc = "done" /\ Has("deployRecentValidation")

\* C23: the rollbackOnError option submitted with a deploy is the negation
\* of the ignoreerrors flag, an absent flag counting as false: it is true
\* unless ignoreerrors was given, whatever the other flags are.
C23_RollbackUnlessIgnoreErrors ==
  cmd = "deploy" /\ Has("deploy") =>
    /\ apiOptions # NoOptions
    /\ apiOptions.rollbackOnError = ~(flags.ignoreerrors = Given)
    /\ flags.ignoreerrors = Absent => apiOptions.rollbackOnError

\* a deploy given ignoreerrors was submitted without rollback
C23_Witness ==
  /\ cmd = "deploy" /\ Has("deploy") /\ handle # NoId
  /\ flags.ignoreerrors = Given
  /\ apiOptions # NoOptions /\ ~apiOptions.rollbackOnError

\* a deploy without ignoreerrors, with the other options given, was
\* submitted with rollback
C23_WitnessDefault ==
  /\ cmd = "deploy" /\ Has("deploy") /\ handle # NoId
  /\ flags.ignoreerrors = Absent /\ flags.ignorewarnings = Given
  /\ flags.purgeondelete = Given
  /\ apiOptions # NoOptions /\ apiOptions.rollbackOnError

\* C24: of two tracked deploys running concurrently on one tracking store, no
\* one submits on a conflict check that read a tracking state which the
\* other has advanced since: at the submission the store is still as the
\* invocation's conflict check read it.
C24_SubmitsOnCurrentCheck ==
  [][/\ cmd = "deploy" /\ pc = "submit" /\ flags.tracksource
     /\ calls' = Append(calls, "deploy") /\ other' = other
     /\ checked # <<>>
     => checked = <<storeVars>>]_vars

\* the calls of a deploy that read the tracking store
TrackingReads == {"filterConflictsByComponentSet", "getChanges"}

\* C25: within one deploy invocation every read of the tracking store (the
\* conflict filter, the local-deletions query) is made once and before the
\* submission; updateTracking is called at most once, after the submission
\* has returned and, when the command waits, after the poll has returned;
\* and the store changes in no other step than this, with a polled result.
C25_ReadsBeforeSubmitWriteAfterPoll ==
  /\ [](cmd = "deploy" =>
          /\ \A c \in TrackingReads :
               /\ Count(c) <= 1
               /\ Has(c) /\ Has("deploy") => Before(c, "deploy")
               /\ Has(c) => pc # "submit" \/ ~Has("deploy")
          /\ Count("updateTracking") <= 1
          /\ Has("updateTracking") =>
               /\ Count("deploy") = 1
               /\ Before("deploy", "updateTracking")
               /\ handle # NoId /\ asyncDeployResult = handle
               /\ isAsync \/ (polled /\ Before("pollStatus", "updateTracking"))
               /\ pc \in {"format", "done", "failed"})
  /\ [][cmd = "deploy" /\ run' = run /\ storeVars' # storeVars =>
          /\ pc = "updateTracking" /\ calls' = Append(calls, "updateTracking")
          /\ ~Has("updateTracking")
          /\ polled /\ deployResult # NoResult
          /\ Has("pollStatus")]_vars

\* a tracked deploy read the store twice before submitting and advanced it
\* after its poll
C25_Witness ==
  /\ cmd = "deploy" /\ flags.tracksource /\ pc \in {"format", "done"}
  /\ Has("filterConflictsByComponentSet") /\ Has("getChanges")
  /\ Has("pollStatus") /\ Has("updateTracking")
  /\ checked # <<>>
  /\ \E p \in componentSet : checked[1][1][p] # localState[p]

\* C26: a timeout of the local poll, in deploy or in report, leaves the remote
\* deploy as it is, still pending; the status of a submitted request changes
\* in no step of a command, only by the org's own progress; a command step
\* touches the org's requests only to enter a new one, as Queued, by a
\* submission.  So the request can still complete, and a later report sees it.
C26_TimeoutLeavesRemote ==
  /\ [][raised' = Append(raised, "PollTimeout") =>
          /\ remote' = remote
          /\ remote[handle] \in PendingStatus
          /\ handle' = handle /\ stash' = stash]_vars
  /\ [][\A i \in Ids : remote'[i] # remote[i] =>
          \/ /\ remote[i] # "None"
             /\ UNCHANGED <<run, runVars>>
          \/ /\ remote[i] = "None" /\ remote'[i] = "Queued"
             /\ cmd = "deploy" /\ pc \in {"submit", "replay"}
             /\ handle' = i]_vars

\* a report timed out on a pending deploy and returned its pending status; a
\* later report with the same id returned the completed deploy
C26_Witness ==
  /\ Len(reports) = 2
  /\ reports[1].id = reports[2].id
  /\ reports[1].status \in PendingStatus
  /\ reports[2].status \in TerminalStatus

\* a deploy timed out and its request is still in progress in the org
C26_WitnessDeploy ==
  /\ cmd = "deploy" /\ TimedOut /\ handle # NoId
  /\ remote[handle] = "InProgress" /\ stash = handle

\* positions of an invocation that has ended: run() returned (Formatted) or
\* the command failed
EndedPcs == {"done", "failed"}

\* C27: every deploy or report invocation eventually ends, with its result
\* formatted or with a fatal error, provided every external call returns or
\* raises; in particular the suspension in the poll ends, whether or not the
\* org ever completes the deploy.
C27_InvocationEnds == (pc # "idle") ~> (pc \in EndedPcs)

\* a report whose poll ended by the wait elapsing returned
C27_Witness ==
  /\ cmd = "report" /\ pc = "done" /\ TimedOut
  /\ remote[handle] \in PendingStatus

\* a deploy whose poll ended by a terminal status returned
C27_WitnessDeploy ==
  /\ cmd = "deploy" /\ pc = "done" /\ polled /\ Has("pollStatus")

\* C28: in one deploy invocation at most one deploy is submitted:
\* componentSet.deploy and deployRecentValidation are called at most once
\* together, the one without and the other with validateddeployrequestid;
\* pollStatus is called at most once, after the submission, on the handle the
\* submission returned, and the polled result is that of this handle.
C28_OneSubmissionOnePoll ==
  /\ [](cmd = "deploy" =>
          /\ Count("deploy") + Count("deployRecentValidation") <= 1
          /\ Has("deploy") => ~flags.validateddeployrequestid
          /\ Has("deployRecentValidation") => flags.validateddeployrequestid
          /\ handle # NoId =>
               /\ \E c \in Submissions : Has(c)
               /\ asyncDeployResult = handle /\ remote[handle] # "None"
          /\ Count("pollStatus") <= 1
          /\ Has("pollStatus") =>
               /\ ~isAsync /\ handle # NoId
               /\ \E c \in Submissions : Has(c) /\ Before(c, "pollStatus")
          /\ deployResult # NoResult => deployResult.id = handle)
  /\ [][cmd = "deploy" /\ run' = run /\ handle' # handle =>
          /\ handle = NoId /\ remote[handle'] = "None"
          /\ ~Has("pollStatus")]_vars

\* a deploy submitted once, polled its handle once and returned
C28_Witness ==
  /\ cmd = "deploy" /\ pc = "done"
  /\ Count("deploy") = 1 /\ Count("pollStatus") = 1
  /\ polled /\ deployResult.id = handle

\* a replay submitted once, by deployRecentValidation, and polled
C28_WitnessReplay ==
  /\ cmd = "deploy" /\ pc = "done"
  /\ Count("deployRecentValidation") = 1 /\ ~Has("deploy")
  /\ Count("pollStatus") = 1

\* errors of the calls to the org
RequestErrors == {"PollError", "FetchError"}

C29_WitnessQueued ==
  /\ cmd = "report" /\ pc = "done" /\ exitCode = 0
  /\ result # NoReturn /\ result.status = "Queued"

\* a report failed although no request raised and the flags were accepted
C29_WitnessBuildFailure ==
  /\ cmd = "report" /\ pc = "failed" /\ err = "ResolutionError"
  /\ raised = <<>>

\* the calls of the progress formatter and of the display
ObserverCalls == {"progress", "display"}
Unobserved(cs) == SelectSeq(cs, LAMBDA c : c \notin ObserverCalls)

\* a result without the id of its request
StatusOf(res) == IF res = NoResult THEN "None" ELSE res.status
Returned(r) ==
  IF r = NoReturn THEN <<"none">>
  ELSE IF "status" \in DOMAIN r THEN <<"result", r.status>>
  ELSE <<"id">>

\* the two invocations have ended, and were given the same command line but
\* for json, the same component set, and the same answers by the org and
\* the listeners: the same status, the same errors
SameRun ==
  /\ cmd # "none" /\ cmd = other.cmd
  /\ pc \in EndedPcs /\ other.pc \in EndedPcs
  /\ [flags EXCEPT !.json = FALSE] = [other.flags EXCEPT !.json = FALSE]
  /\ componentSet = other.componentSet
  /\ raised = other.raised
  /\ (err \in {"ListenerError", "ResolutionError"}) =
       (other.err \in {"ListenerError", "ResolutionError"})
  /\ Len(events) = Len(other.events)
  /\ StatusOf(deployResult) = StatusOf(other.deployResult)

C30_WitnessBarStatus ==
  /\ SameRun /\ pc = "done" /\ polled
  /\ {formatter.mode, other.formatter.mode} = {"bar", "status"}

\* two reports of one request, one with the bar and one in JSON mode
C30_WitnessReport ==
  /\ SameRun /\ cmd = "report" /\ pc = "done"
  /\ {formatter.mode, other.formatter.mode} = {"none", "bar"}
  /\ result = other.result

\* C31: in a deploy that is not a validated replay, the id the submission
\* returned is recorded, in asyncDeployResult and by updateDeployId, in the
\* step of the submission itself and so before any poll: whenever the poll
\* has been called, has timed out or has raised, the id is stored.
C31_IdRecordedBeforePoll ==
  /\ [](cmd = "deploy" /\ ~flags.validateddeployrequestid =>
          /\ handle # NoId =>
               /\ Has("deploy")
               /\ asyncDeployResult = handle
               /\ stash = handle
          /\ Has("pollStatus") =>
               /\ handle # NoId /\ asyncDeployResult = handle
               /\ stash = handle
               /\ Before("deploy", "pollStatus")
          /\ (\E i \in DOMAIN raised : raised[i] \in {"PollTimeout", "PollError"})
               => asyncDeployResult = handle /\ stash = handle /\ handle # NoId)
  /\ [][cmd = "deploy" /\ ~flags.validateddeployrequestid /\ run' = run
          /\ handle' # handle =>
            /\ pc = "submit" /\ calls' = Append(calls, "deploy")
            /\ asyncDeployResult' = handle' /\ stash' = handle']_vars

\* the poll of a deploy timed out and the id of its request is stored
C31_Witness ==
  /\ cmd = "deploy" /\ ~flags.validateddeployrequestid
  /\ pc = "failed" /\ err = "PollTimeout"
  /\ handle # NoId /\ asyncDeployResult = handle /\ stash = handle

\* the poll of a deploy raised another error and the id is stored
C31_WitnessPollError ==
  /\ cmd = "deploy" /\ ~flags.validateddeployrequestid
  /\ pc = "failed" /\ err = "PollError"
  /\ handle # NoId /\ asyncDeployResult = handle /\ stash = handle

\* positions of a report past the status fetch of the finally block
AfterFetchPcs == {"reportResolveSuccess", "reportFormat", "done", "failed"}

\* C32: in a report invocation that reached the poll, the status fetch
\* (this.report(deployId)) is made exactly once, after the one poll call and
\* whatever its outcome: a result, a swallowed timeout, or another error,
\* which is rethrown only after the fetch.
C32_FetchOnceAfterPoll ==
  cmd = "report" =>
    /\ Count("pollStatus") <= 1
    /\ Count("checkDeployStatus") <= 1
    /\ Has("checkDeployStatus") =>
         Has("pollStatus") /\ Before("pollStatus", "checkDeployStatus")
    /\ Has("pollStatus") =>
         /\ pc \in {"reportFetch"} \cup AfterFetchPcs
         /\ (pc = "reportFetch") = ~Has("checkDeployStatus")
         /\ pc \in AfterFetchPcs => Count("checkDeployStatus") = 1
    /\ pc = "failed" /\ err = "PollError" => Has("checkDeployStatus")

\* the poll raised an error other than the timeout; the status was fetched
\* and then the error was rethrown
C32_Witness ==
  /\ cmd = "report" /\ pc = "failed" /\ err = "PollError"
  /\ Count("checkDeployStatus") = 1 /\ deployResult # NoResult
  /\ Before("pollStatus", "checkDeployStatus")

\* the poll timed out, the timeout was swallowed and the status fetched
C32_WitnessTimeout ==
  /\ cmd = "report" /\ pc = "done" /\ "PollTimeout" \in swallowed
  /\ Count("checkDeployStatus") = 1

\* the poll returned and the status was fetched
C32_WitnessReturned ==
  /\ cmd = "report" /\ pc = "done" /\ polled
  /\ Count("checkDeployStatus") = 1

\* C33: a report invocation works on a previously issued deploy id only: it
\* makes no submission, emits neither predeploy nor postdeploy, makes no call
\* on the tracking store and leaves the store and the org's requests as they
\* are; it has no mode without a poll: its wait is at least 1, and it fetches
\* or returns a result only after having called the poll.
C33_ReportOnlyPollsAndFetches ==
  /\ [](cmd = "report" /\ err # "ConfigurationError" =>
          /\ \A c \in Submissions : ~Has(c)
          /\ events = <<>>
          /\ ~Has("emit:predeploy") /\ ~Has("emit:postdeploy")
          /\ \A c \in TrackingCalls : ~Has(c)
          /\ ~tracking /\ checked = <<>>
          /\ apiOptions = NoOptions /\ asyncDeployResult = NoId
          /\ flags.wait >= 1 /\ ~isAsync
          /\ handle # NoId =>
               handle = resolveDeployId(flags.jobid) /\ remote[handle] # "None"
          /\ Has("checkDeployStatus") \/ pc = "done" \/ deployResult # NoResult
               => Has("pollStatus")
          /\ pc \in {"reportFetch", "reportResolveSuccess", "reportFormat"}
               => Has("pollStatus"))
  /\ [][cmd = "report" /\ run' = run =>
          /\ UNCHANGED <<storeVars, stash>>
          /\ \A i \in Ids : remote[i] = "None" => remote'[i] = "None"]_vars

\* a report of an id issued before polled, fetched and returned
C33_Witness ==
  /\ cmd = "report" /\ pc = "done" /\ handle # NoId
  /\ Before("pollStatus", "checkDeployStatus")
  /\ result # NoReturn /\ result.id = handle
  /\ events = <<>> /\ localState # [p \in Paths |-> "none"]

\* C34: the apiOptions submitted with a deploy have a testLevel entry exactly
\* when the testlevel flag was given, holding the level given, and a runTests
\* entry exactly when the runtests flag was given, holding the list given;
\* with the flags absent nothing is sent in their place, no default level.
C34_TestOptionsOnlyWhenGiven ==
  cmd = "deploy" /\ Has("deploy") =>
    /\ apiOptions # NoOptions
    /\ ("testLevel" \in DOMAIN apiOptions) = (flags.testlevel # Absent)
    /\ ("runTests" \in DOMAIN apiOptions) = flags.runtests.given
    /\ flags.testlevel # Absent => apiOptions.testLevel = flags.testlevel
    /\ flags.runtests.given => apiOptions.runTests = flags.runtests.tests
    /\ DOMAIN apiOptions \subseteq
         {"purgeOnDelete", "ignoreWarnings", "rollbackOnError", "checkOnly",
          "testLevel", "runTests"}

\* a deploy given neither flag was submitted without either entry
C34_Witness ==
  /\ cmd = "deploy" /\ Has("deploy") /\ handle # NoId
  /\ flags.testlevel = Absent /\ ~flags.runtests.given
  /\ apiOptions # NoOptions
  /\ DOMAIN apiOptions \cap {"testLevel", "runTests"} = {}

\* a deploy given both flags was submitted with both entries
C34_WitnessBoth ==
  /\ cmd = "deploy" /\ Has("deploy") /\ handle # NoId
  /\ flags.testlevel = "RunSpecifiedTests"
  /\ flags.runtests.given /\ flags.runtests.tests = <<"MyTest">>
  /\ apiOptions # NoOptions
  /\ apiOptions.testLevel = "RunSpecifiedTests"
  /\ apiOptions.runTests = <<"MyTest">>

\* a deploy given runtests with an empty list was submitted with the entry
C34_WitnessEmptyList ==
  /\ cmd = "deploy" /\ Has("deploy") /\ handle # NoId
  /\ flags.testlevel = Absent
  /\ flags.runtests.given /\ flags.runtests.tests = <<>>
  /\ apiOptions # NoOptions /\ "runTests" \in DOMAIN apiOptions
====
